---- MODULE Spec2Model ----
(***************************************************************************)
(* Model of src/main.py: the Board class (construction, lowest_entropy)   *)
(* and the work-list solver iterate2 (propagation loop, branching on a    *)
(* deep copy, backtracking).  A Python cell is either an int (a fixed     *)
(* value) or a list (the remaining candidates); it is modelled as a       *)
(* record with the flag isList.  Coordinates are 0-based pairs <<y, x>>.  *)
(* The recursion of iterate2 is the sequence `stack` of frames, the       *)
(* running call last.  The older solver iterate (full sweeps with          *)
(* Board.reduce_entropy) is run on a second Board built from the same     *)
(* input once iterate2 has ended; its recursion is `istack`.              *)
(***************************************************************************)
EXTENDS Integers, Sequences, FiniteSets, TLC

VARIABLES raw_board, possible_values, width, height, sub_block, stack, phase, ret,
          istack, iphase, iret

vars == <<raw_board, possible_values, width, height, sub_block, stack, phase, ret,
          istack, iphase, iret>>

(***************************************************************************)
(* Python values and list primitives                                       *)
(***************************************************************************)
IntCell(v) == [isList |-> FALSE, v |-> v, c |-> <<>>]

ListCell(c) == [isList |-> TRUE, v |-> 0, c |-> c]

\* `value in lst`
InList(v, lst) == \E n \in 1..Len(lst) : lst[n] = v

\* a removal that fills the hole with the last element
ListRemoveSwap(lst, v) ==
    LET n == CHOOSE m \in 1..Len(lst) : lst[m] = v /\ \A j \in 1..(m - 1) : lst[j] # v
    IN  [j \in 1..(Len(lst) - 1) |-> IF j = n THEN lst[Len(lst)] ELSE lst[j]]

\* `lst.remove(value)`: drops the first occurrence
ListRemove(lst, v) ==
    LET n == CHOOSE m \in 1..Len(lst) : lst[m] = v /\ \A j \in 1..(m - 1) : lst[j] # v
    IN  [j \in 1..(Len(lst) - 1) |-> IF j < n THEN lst[j] ELSE lst[j + 1]]

\* int(math.sqrt(n))
ISqrt(n) == CHOOSE r \in 0..n : r * r <= n /\ (r + 1) * (r + 1) > n

\* the pairs <<y, x>> of `for y in range(h): for x in range(w)`, in that order
RowMajor(h, w) == [n \in 1..(h * w) |-> <<(n - 1) \div w, (n - 1) % w>>]

(***************************************************************************)
(* Board.__init__                                                          *)
(***************************************************************************)
\* the cells of a constructed board: candidates for a falsy (0) input cell,
\* the given value otherwise
InitCells(raw, values, h, w) ==
    [yx \in {<<y, x>> : y \in 0..(h - 1), x \in 0..(w - 1)} |->
        IF raw[yx[1] + 1][yx[2] + 1] = 0
        THEN ListCell(values)
        ELSE IntCell(raw[yx[1] + 1][yx[2] + 1])]

\* the coordinates appended to toDo by the constructor, in scan order
InitToDo(raw, h, w) ==
    SelectSeq(RowMajor(h, w), LAMBDA yx : raw[yx[1] + 1][yx[2] + 1] # 0)

\* the count without the decrement of line 59
InitUnsolvedAllCells(raw, h, w) == w * h

\* lines 51 and 59: every cell counted, one taken off per given cell
InitUnsolved(raw, h, w) == w * h - Len(InitToDo(raw, h, w))

\* board[y][x] of the constructor's scan leaves the input (Python IndexError)
InitIndexError(raw) ==
    \/ Len(raw) = 0
    \/ LET w == Len(raw)
           h == Len(raw[1])
       IN  \E y \in 0..(h - 1), x \in 0..(w - 1) :
               \/ y + 1 > Len(raw)
               \/ x + 1 > Len(raw[y + 1])

\* one activation of iterate2: the Board instance it works on (board, toDo,
\* unsolved), the position i of its `for` loop in toDo, and, once it is
\* branching, the chosen cell loc and the position k in that cell's list
Frame(b, td, u, i, pc, loc, k) ==
    [board |-> b, toDo |-> td, unsolved |-> u, i |-> i, pc |-> pc, loc |-> loc, k |-> k]

BoardInit ==
    /\ phase = "new"
    /\ IF InitIndexError(raw_board)
       THEN /\ phase' = "IndexError"
            /\ UNCHANGED <<width, height, sub_block, stack>>
       ELSE LET w  == Len(raw_board)
                h  == Len(raw_board[1])
                td == InitToDo(raw_board, h, w)
            IN  /\ width' = w
                /\ height' = h
                /\ sub_block' = ISqrt(w)
                /\ stack' = <<Frame(InitCells(raw_board, possible_values, h, w), td,
                                    InitUnsolved(raw_board, h, w), 1, "loop", <<0, 0>>, 0)>>
                /\ phase' = "running"
    /\ UNCHANGED <<istack, iphase, iret, raw_board, possible_values, ret>>

(***************************************************************************)
(* Board.lowest_entropy                                                    *)
(***************************************************************************)
EntLowStart == 10

RECURSIVE LowestScan(_, _, _, _, _)
\* lines 111-116 from the n-th cell of one row on; entLoc is <<>> for None,
\* <<coordinate>> otherwise
LowestScan(b, cells, n, entLow, entLoc) ==
    IF n > Len(cells)
    THEN entLoc
    ELSE IF b[cells[n]].isList /\ Len(b[cells[n]].c) < entLow
         THEN LowestScan(b, cells, n + 1, Len(b[cells[n]].c), <<cells[n]>>)
         ELSE LowestScan(b, cells, n + 1, entLow, entLoc)

RECURSIVE LowestRows(_, _, _)
\* line 110: entLoc after the first n rows; entLow is the length of the list
\* at entLoc once one was found
LowestRows(b, n, w) ==
    IF n = 0
    THEN <<>>
    ELSE LET entLoc == LowestRows(b, n - 1, w)
             row    == [x \in 1..w |-> <<n - 1, x - 1>>]
         IN  IF entLoc = <<>>
             THEN LowestScan(b, row, 1, EntLowStart, <<>>)
             ELSE LowestScan(b, row, 1, Len(b[entLoc[1]].c), entLoc)

lowest_entropy(b, h, w) == LowestRows(b, h, w)

(***************************************************************************)
(* iterate2: one pass of the body of `for y, x in board.toDo`              *)
(***************************************************************************)
\* the cells visited by `for p in range(width)`: board[y][p], then board[p][x]
RowColPeers(yx, w) ==
    [n \in 1..(2 * w) |-> IF n % 2 = 1 THEN <<yx[1], (n - 1) \div 2>>
                                       ELSE <<(n - 1) \div 2, yx[2]>>]

\* box loops that stay in the row of the cell
BoxPeersOwnRow(yx, sb) ==
    LET top_left_x == (yx[2] \div sb) * sb
    IN  [n \in 1..(sb * sb) |-> <<yx[1], top_left_x + ((n - 1) % sb)>>]

\* the cells visited by the box_y / box_x loops
BoxPeers(yx, sb) ==
    LET top_left_x == (yx[2] \div sb) * sb
        top_left_y == (yx[1] \div sb) * sb
    IN  [n \in 1..(sb * sb) |-> <<top_left_y + (n - 1) \div sb, top_left_x + ((n - 1) % sb)>>]

\* a box coordinate outside the board (Python IndexError in the box loops)
BoxIndexError(yx, sb, w) ==
    \E n \in 1..(sb * sb) : BoxPeers(yx, sb)[n][1] >= w \/ BoxPeers(yx, sb)[n][2] >= w

RECURSIVE Eliminate(_, _, _, _, _)
\* the eliminations with an append for every peer that is a list, whether or
\* not it held the value
EliminateAlways(b, td, value, peers, n) ==
    LET hit(p) == \E m \in n..Len(peers) : peers[m] = p
    IN  [board |-> [p \in DOMAIN b |->
                       IF hit(p) /\ b[p].isList /\ InList(value, b[p].c)
                       THEN ListCell(ListRemove(b[p].c, value))
                       ELSE b[p]],
         toDo  |-> td \o SelectSeq(SubSeq(peers, n, Len(peers)), LAMBDA p : b[p].isList)]

\* from the n-th peer on: remove value from each peer that is a list holding
\* it and append that peer to toDo
Eliminate(b, td, value, peers, n) ==
    IF n > Len(peers)
    THEN [board |-> b, toDo |-> td]
    ELSE IF b[peers[n]].isList /\ InList(value, b[peers[n]].c)
         THEN Eliminate([b EXCEPT ![peers[n]] = ListCell(ListRemove(@.c, value))],
                        Append(td, peers[n]), value, peers, n + 1)
         ELSE Eliminate(b, td, value, peers, n + 1)

\* the eliminations without the appends of lines 161, 164 and 172
PropagateNoAppend(b, td, yx, w, sb) ==
    [board |-> Eliminate(b, td, b[yx].v, RowColPeers(yx, w) \o BoxPeers(yx, sb), 1).board,
     toDo  |-> td]

\* lines 156-172 for the fixed cell yx
Propagate(b, td, yx, w, sb) ==
    Eliminate(b, td, b[yx].v, RowColPeers(yx, w) \o BoxPeers(yx, sb), 1)

\* the commit written with the coordinates exchanged (board[x][y])
CommitSwapped(f, yx) ==
    [f EXCEPT !.board[<<yx[2], yx[1]>>] = IntCell(f.board[yx].c[1]), !.unsolved = f.unsolved - 1]

\* lines 151-153: the cell takes the single value left in its list
Commit(f, yx) ==
    [f EXCEPT !.board[yx] = IntCell(f.board[yx].c[1]), !.unsolved = f.unsolved - 1]

top == stack[Len(stack)]

Looping == phase = "running" /\ top.pc = "loop" /\ top.i <= Len(top.toDo)

\* `return None` of the running call: the caller goes on with its next attempt
ReturnNone ==
    IF Len(stack) = 1
    THEN /\ phase' = "None"
         /\ stack' = <<>>
    ELSE /\ phase' = phase
         /\ stack' = SubSeq(stack, 1, Len(stack) - 1)

\* lines 149-150: a dequeued list is empty
Contradiction ==
    /\ Looping
    /\ top.board[top.toDo[top.i]].isList
    /\ Len(top.board[top.toDo[top.i]].c) = 0
    /\ ReturnNone
    /\ UNCHANGED <<istack, iphase, iret, raw_board, possible_values, width, height, sub_block, ret>>

\* lines 151-155: the commit that brings unsolved to 0 returns the board,
\* and every enclosing call returns it in turn (lines 181-182)
CommitSolved ==
    /\ Looping
    /\ top.board[top.toDo[top.i]].isList
    /\ Len(top.board[top.toDo[top.i]].c) = 1
    /\ Commit(top, top.toDo[top.i]).unsolved = 0
    /\ ret' = <<Commit(top, top.toDo[top.i])>>
    /\ phase' = "Board"
    /\ stack' = <<>>
    /\ UNCHANGED <<istack, iphase, iret, raw_board, possible_values, width, height, sub_block>>

\* every other pass: an optional commit, then propagation from a fixed cell
Dequeue ==
    /\ Looping
    /\ LET yx == top.toDo[top.i]
           forced == top.board[yx].isList /\ Len(top.board[yx].c) = 1
           f1 == IF forced THEN Commit(top, yx) ELSE top
       IN  /\ top.board[yx].isList => Len(top.board[yx].c) # 0
           /\ forced => f1.unsolved # 0
           /\ IF f1.board[yx].isList
              THEN /\ stack' = [stack EXCEPT ![Len(stack)] = [f1 EXCEPT !.i = f1.i + 1]]
                   /\ phase' = phase
              ELSE IF BoxIndexError(yx, sub_block, width)
                   THEN /\ phase' = "IndexError"
                        /\ stack' = stack
                   ELSE LET r == Propagate(f1.board, f1.toDo, yx, width, sub_block)
                        IN  /\ stack' = [stack EXCEPT ![Len(stack)] =
                                   [f1 EXCEPT !.board = r.board, !.toDo = r.toDo, !.i = f1.i + 1]]
                            /\ phase' = phase
    /\ UNCHANGED <<istack, iphase, iret, raw_board, possible_values, width, height, sub_block, ret>>

(***************************************************************************)
(* iterate2: branching (lines 174-183)                                     *)
(***************************************************************************)
\* lines 174-175: `y, x = None` raises TypeError when no cell was found
EnterBranch ==
    /\ phase = "running"
    /\ top.pc = "loop"
    /\ top.i > Len(top.toDo)
    /\ LET entLoc == lowest_entropy(top.board, height, width)
       IN  IF entLoc = <<>>
           THEN /\ phase' = "TypeError"
                /\ stack' = stack
           ELSE /\ phase' = phase
                /\ stack' = [stack EXCEPT ![Len(stack)] =
                       [top EXCEPT !.toDo = entLoc, !.pc = "branch", !.loc = entLoc[1], !.k = 1]]
    /\ UNCHANGED <<istack, iphase, iret, raw_board, possible_values, width, height, sub_block, ret>>

\* the guess without the decrement of line 179
SnapshotKeepCount(f, attempt) ==
    Frame([f.board EXCEPT ![f.loc] = IntCell(attempt)], f.toDo, f.unsolved,
          1, "loop", <<0, 0>>, 0)

\* lines 177-179: the deep copy with the guess written into it
Snapshot(f, attempt) ==
    Frame([f.board EXCEPT ![f.loc] = IntCell(attempt)], f.toDo, f.unsolved - 1,
          1, "loop", <<0, 0>>, 0)

\* the attempt with the guess written into the caller's board as well, as
\* without copy.deepcopy
AttemptShared ==
    /\ phase = "running"
    /\ top.pc = "branch"
    /\ top.k <= Len(top.board[top.loc].c)
    /\ stack' = Append([stack EXCEPT ![Len(stack)] =
                           [Snapshot(top, top.board[top.loc].c[top.k]) EXCEPT
                                !.pc = "branch", !.loc = top.loc, !.k = top.k + 1]],
                       Snapshot(top, top.board[top.loc].c[top.k]))
    /\ UNCHANGED <<istack, iphase, iret, raw_board, possible_values, width, height, sub_block, phase, ret>>

\* lines 176-180: the next attempt of the list of the chosen cell
Attempt ==
    /\ phase = "running"
    /\ top.pc = "branch"
    /\ top.k <= Len(top.board[top.loc].c)
    /\ stack' = Append([stack EXCEPT ![Len(stack)] = [top EXCEPT !.k = top.k + 1]],
                       Snapshot(top, top.board[top.loc].c[top.k]))
    /\ UNCHANGED <<istack, iphase, iret, raw_board, possible_values, width, height, sub_block, phase, ret>>

\* line 183: every attempt returned None
Exhausted ==
    /\ phase = "running"
    /\ top.pc = "branch"
    /\ top.k > Len(top.board[top.loc].c)
    /\ ReturnNone
    /\ UNCHANGED <<istack, iphase, iret, raw_board, possible_values, width, height, sub_block, ret>>

(***************************************************************************)
(* Board.reduce_entropy                                                    *)
(***************************************************************************)
EntropyMarker == 9

RECURSIVE Strip(_, _, _, _)
\* lines 84-95 for one list `cell`: from the n-th visited cell on, remove the
\* value of each visited cell that is fixed
Strip(b, cell, peers, n) ==
    IF n > Len(peers)
    THEN cell
    ELSE IF ~b[peers[n]].isList /\ InList(b[peers[n]].v, cell)
         THEN Strip(b, ListRemove(cell, b[peers[n]].v), peers, n + 1)
         ELSE Strip(b, cell, peers, n + 1)

\* lines 82-104 for the cell yx, on the scan state s: the board, the lowest
\* entropy so far and its location; error is the IndexError of a box loop that
\* leaves the board
ReduceCell(s, yx, w, sb) ==
    IF s.error \/ ~s.board[yx].isList
    THEN s
    ELSE IF BoxIndexError(yx, sb, w)
         THEN [s EXCEPT !.error = TRUE]
         ELSE LET cell == Strip(s.board, s.board[yx].c, RowColPeers(yx, w) \o BoxPeers(yx, sb), 1)
              IN  [board    |-> [s.board EXCEPT ![yx] =
                                    IF Len(cell) = 1 THEN IntCell(cell[1]) ELSE ListCell(cell)],
                   entropy  |-> IF Len(cell) < s.entropy THEN Len(cell) ELSE s.entropy,
                   location |-> IF Len(cell) < s.entropy THEN yx ELSE s.location,
                   error    |-> FALSE]

RECURSIVE ReduceRow(_, _, _, _, _)
\* line 81: the first n cells of row y
ReduceRow(s, y, n, w, sb) ==
    IF n = 0 THEN s ELSE ReduceCell(ReduceRow(s, y, n - 1, w, sb), <<y, n - 1>>, w, sb)

RECURSIVE ReduceRows(_, _, _, _)
\* lines 78-80: the first n rows
ReduceRows(b, n, w, sb) ==
    IF n = 0
    THEN [board |-> b, entropy |-> EntropyMarker, location |-> <<0, 0>>, error |-> FALSE]
    ELSE LET s == ReduceRows(b, n - 1, w, sb)
         IN  IF s.error THEN s ELSE ReduceRow(s, n - 1, w, w, sb)

reduce_entropy(b, h, w, sb) == ReduceRows(b, h, w, sb)

(***************************************************************************)
(* iterate (lines 120-142), one action per call of reduce_entropy and per  *)
(* attempt                                                                 *)
(***************************************************************************)
\* the Board for iterate, built from the same input after iterate2 has ended
BoardInitIterate ==
    /\ phase \notin {"new", "running"}
    /\ iphase = "new"
    /\ IF InitIndexError(raw_board)
       THEN /\ iphase' = "IndexError"
            /\ UNCHANGED <<istack, width, height, sub_block>>
       ELSE LET w == Len(raw_board)
                h == Len(raw_board[1])
            IN  /\ istack' = <<Frame(InitCells(raw_board, possible_values, h, w),
                                     InitToDo(raw_board, h, w), InitUnsolved(raw_board, h, w),
                                     1, "reduce", <<0, 0>>, 0)>>
                /\ iphase' = "running"
                /\ width' = w
                /\ height' = h
                /\ sub_block' = ISqrt(w)
    /\ UNCHANGED <<raw_board, possible_values, stack, phase, ret, iret>>

itop == istack[Len(istack)]

Reducing == iphase = "running" /\ itop.pc = "reduce"

Reduced == reduce_entropy(itop.board, height, width, sub_block)

\* `return None` of the running call of iterate
IterateReturnNone ==
    IF Len(istack) = 1
    THEN /\ iphase' = "None"
         /\ istack' = <<>>
    ELSE /\ iphase' = iphase
         /\ istack' = SubSeq(istack, 1, Len(istack) - 1)

IterateIndexError ==
    /\ Reducing
    /\ Reduced.error
    /\ iphase' = "IndexError"
    /\ UNCHANGED <<raw_board, possible_values, width, height, sub_block, stack, phase, ret,
                   istack, iret>>

\* lines 127-128
IterateContradiction ==
    /\ Reducing
    /\ ~Reduced.error
    /\ Reduced.entropy = 0
    /\ IterateReturnNone
    /\ UNCHANGED <<raw_board, possible_values, width, height, sub_block, stack, phase, ret, iret>>

\* lines 129-130: `return iterate(board)` on the same Board
IterateAgain ==
    /\ Reducing
    /\ ~Reduced.error
    /\ Reduced.entropy = 1
    /\ istack' = [istack EXCEPT ![Len(istack)] = [itop EXCEPT !.board = Reduced.board]]
    /\ UNCHANGED <<raw_board, possible_values, width, height, sub_block, stack, phase, ret,
                   iphase, iret>>

\* lines 131-132, and lines 140-141 and 130 of every enclosing call
IterateReturnBoard ==
    /\ Reducing
    /\ ~Reduced.error
    /\ Reduced.entropy = EntropyMarker
    /\ iret' = <<[itop EXCEPT !.board = Reduced.board]>>
    /\ iphase' = "Board"
    /\ istack' = <<>>
    /\ UNCHANGED <<raw_board, possible_values, width, height, sub_block, stack, phase, ret>>

\* line 133: the list at `location` is iterated
IterateBranch ==
    /\ Reducing
    /\ ~Reduced.error
    /\ Reduced.entropy \notin {0, 1, EntropyMarker}
    /\ istack' = [istack EXCEPT ![Len(istack)] =
           [itop EXCEPT !.board = Reduced.board, !.pc = "branch",
                        !.loc = Reduced.location, !.k = 1]]
    /\ UNCHANGED <<raw_board, possible_values, width, height, sub_block, stack, phase, ret,
                   iphase, iret>>

\* lines 137-138: the deep copy with the attempt written into it
IterateSnapshot(f, attempt) ==
    [f EXCEPT !.board[f.loc] = IntCell(attempt), !.pc = "reduce", !.loc = <<0, 0>>, !.k = 0]

\* lines 134-139
IterateAttempt ==
    /\ iphase = "running"
    /\ itop.pc = "branch"
    /\ itop.k <= Len(itop.board[itop.loc].c)
    /\ istack' = Append([istack EXCEPT ![Len(istack)] = [itop EXCEPT !.k = itop.k + 1]],
                        IterateSnapshot(itop, itop.board[itop.loc].c[itop.k]))
    /\ UNCHANGED <<raw_board, possible_values, width, height, sub_block, stack, phase, ret,
                   iphase, iret>>

\* line 142
IterateExhausted ==
    /\ iphase = "running"
    /\ itop.pc = "branch"
    /\ itop.k > Len(itop.board[itop.loc].c)
    /\ IterateReturnNone
    /\ UNCHANGED <<raw_board, possible_values, width, height, sub_block, stack, phase, ret, iret>>


(***************************************************************************)
(* The grids and alphabets the solver is run on                            *)
(***************************************************************************)
\* number of override cells, and the values an override may write (0 = blank)
NPool == 3

Alphabet(n) == [j \in 1..n |-> j]

\* rows x cols grid of blanks
Blank(rows, cols) == [r \in 1..rows |-> [c \in 1..cols |-> 0]]

\* a valid solved grid of side n = s * s
Canon(n) ==
    LET s == ISqrt(n)
    IN  [r \in 1..n |-> [c \in 1..n |-> ((((r - 1) % s) * s + ((r - 1) \div s) + (c - 1)) % n) + 1]]

\* grid g with cell <<y, x>> (0-based) set to v
SetCell(g, y, x, v) == [g EXCEPT ![y + 1][x + 1] = v]

\* the commented-out 4x4 board of __main__
Example4 == << <<2, 0, 0, 0>>, <<0, 3, 0, 0>>, <<1, 0, 4, 0>>, <<0, 0, 0, 1>> >>

Solved4 == << <<2, 1, 3, 4>>, <<4, 3, 1, 2>>, <<1, 2, 4, 3>>, <<3, 4, 2, 1>> >>

\* the first commented-out 9x9 board of __main__
Example9 ==
    << <<0, 0, 4, 0, 5, 0, 0, 0, 0>>, <<9, 0, 0, 7, 3, 4, 6, 0, 0>>,
       <<0, 0, 3, 0, 2, 1, 0, 4, 9>>, <<0, 3, 5, 0, 9, 0, 4, 8, 0>>,
       <<0, 9, 0, 0, 0, 0, 0, 3, 0>>, <<0, 7, 6, 0, 1, 0, 9, 2, 0>>,
       <<3, 1, 0, 9, 7, 0, 2, 0, 0>>, <<0, 0, 9, 1, 8, 2, 0, 0, 3>>,
       <<0, 0, 0, 0, 6, 0, 1, 0, 0>> >>

PoolCells == << <<0, 0>>, <<3, 3>>, <<0, 1>>, <<1, 2>>, <<2, 1>>, <<1, 0>> >>

RECURSIVE Override(_, _, _)
\* grid g with the first n pool cells set to the values f[1..n]
Override(g, f, n) ==
    IF n = 0 THEN g
    ELSE SetCell(Override(g, f, n - 1), PoolCells[n][1], PoolCells[n][2], f[n])

\* an input for both solvers, iterate2 first
Input(g, a) == [g |-> g, a |-> a, both |-> TRUE]

\* an input on which only iterate is called (as in lines 198-199)
InputIterate(g, a) == [g |-> g, a |-> a, both |-> FALSE]

\* 4x4 grids: three base grids with every choice of the pool cells
PoolInputs ==
    {Input(Override(base, f, NPool), Alphabet(4)) :
        base \in {Example4, Solved4, Blank(4, 4)}, f \in [1..NPool -> 0..4]}

\* other sides, other shapes, other alphabets
OtherInputs ==
    { Input(Blank(1, 1), Alphabet(1)),
      Input(<< <<1>> >>, Alphabet(1)),
      Input(Blank(2, 2), Alphabet(2)),
      Input(Blank(3, 3), Alphabet(3)),
      Input(Blank(2, 3), Alphabet(3)),
      Input(Blank(3, 2), Alphabet(2)),
      Input(Blank(5, 5), Alphabet(5)),
      Input(Example4, Alphabet(3)),
      Input(<< <<0, 0, 0, 0>>, <<0, 0, 4, 0>>, <<4, 0, 0, 0>>, <<0, 0, 0, 1>> >>, Alphabet(4)),
      Input(Example9, Alphabet(9)),
      Input(SetCell(Example9, 0, 1, 4), Alphabet(9)),
      Input(SetCell(Canon(9), 0, 8, 0), Alphabet(8)),
      InputIterate(Blank(9, 9), Alphabet(9)),
      Input(Blank(10, 10), Alphabet(10)),
      Input(SetCell(Blank(16, 16), 0, 0, 1), Alphabet(16)) }

Inputs == PoolInputs \cup OtherInputs

NFair == 2

\* the inputs of the runs checked for termination: the same grids, with the
\* first NFair pool cells
FairInputs ==
    {Input(Override(base, f, NFair), Alphabet(4)) :
        base \in {Example4, Solved4, Blank(4, 4)}, f \in [1..NFair -> 0..4]} \cup OtherInputs

\* the state before Board(...) is constructed from one of the inputs ins
InitFrom(ins) ==
    /\ \E in \in ins :
           /\ raw_board = in.g
           /\ possible_values = in.a
           /\ phase = IF in.both THEN "new" ELSE "not called"
    /\ width = 0
    /\ height = 0
    /\ sub_block = 0
    /\ stack = <<>>
    /\ ret = <<>>
    /\ istack = <<>>
    /\ iphase = "new"
    /\ iret = <<>>

Init == InitFrom(Inputs)

Next ==
    \/ BoardInit
    \/ Contradiction
    \/ CommitSolved
    \/ Dequeue
    \/ EnterBranch
    \/ Attempt
    \/ Exhausted
    \/ BoardInitIterate
    \/ IterateIndexError
    \/ IterateContradiction
    \/ IterateAgain
    \/ IterateReturnBoard
    \/ IterateBranch
    \/ IterateAttempt
    \/ IterateExhausted

Spec == Init /\ [][Next]_vars

\* one pass of the body of `for y, x in board.toDo`
LoopPass == Contradiction \/ CommitSolved \/ Dequeue

\* the interpreter keeps running the loop: a pass that can be made is made
FairSpec == InitFrom(FairInputs) /\ [][Next]_vars /\ WF_vars(LoopPass)

(***************************************************************************)
(* Vocabulary of the properties                                            *)
(***************************************************************************)
Finished == phase \notin {"new", "running", "not called"}

\* the input is a square grid whose side n is a perfect square, with n symbols
ValidDims(raw, a) ==
    /\ Len(raw) >= 1
    /\ \A r \in 1..Len(raw) : Len(raw[r]) = Len(raw)
    /\ ISqrt(Len(raw)) * ISqrt(Len(raw)) = Len(raw)
    /\ Len(a) = Len(raw)

\* two different cells (1-based <<row, column>>) share a row, a column or a box
Peers(p, q, s) ==
    /\ p # q
    /\ \/ p[1] = q[1]
       \/ p[2] = q[2]
       \/ /\ (p[1] - 1) \div s = (q[1] - 1) \div s
          /\ (p[2] - 1) \div s = (q[2] - 1) \div s

\* two given cells of a square grid that are peers hold the same value
GivenConflict(raw) ==
    \E p \in (1..Len(raw)) \X (1..Len(raw)), q \in (1..Len(raw)) \X (1..Len(raw)) :
        /\ raw[p[1]][p[2]] # 0
        /\ raw[p[1]][p[2]] = raw[q[1]][q[2]]
        /\ Peers(p, q, ISqrt(Len(raw)))

HasBlank(raw) == \E r \in 1..Len(raw) : \E c \in 1..Len(raw[r]) : raw[r][c] = 0

HasGiven(raw) == \E r \in 1..Len(raw) : \E c \in 1..Len(raw[r]) : raw[r][c] # 0

\* every row, column and box of the n x n grid g holds each symbol of a exactly once
IsSolvedGrid(g, a) ==
    LET n == Len(g)
        s == ISqrt(n)
        Once(cells, v) == Cardinality({p \in cells : g[p[1]][p[2]] = v}) = 1
    IN  \A j \in 1..Len(a) :
            /\ \A r \in 1..n : Once({r} \X (1..n), a[j])
            /\ \A c \in 1..n : Once((1..n) \X {c}, a[j])
            /\ \A br \in 0..(s - 1), bc \in 0..(s - 1) :
                   Once(((br * s + 1)..(br * s + s)) \X ((bc * s + 1)..(bc * s + s)), a[j])

\* grid g agrees with every given cell of raw
Extends(g, raw) ==
    \A r \in 1..Len(raw) : \A c \in 1..Len(raw) : raw[r][c] # 0 => g[r][c] = raw[r][c]

Perms4 == {p \in [1..4 -> 1..4] : \A i \in 1..4, j \in 1..4 : i # j => p[i] # p[j]}

\* two rows of a 4x4 grid whose two boxes are complete
Bands4 ==
    {b \in Perms4 \X Perms4 :
        /\ {b[1][1], b[1][2], b[2][1], b[2][2]} = 1..4
        /\ {b[1][3], b[1][4], b[2][3], b[2][4]} = 1..4}

\* all 288 solved 4x4 grids over 1..4
AllSolved4 ==
    {g \in {<<bb[1][1], bb[1][2], bb[2][1], bb[2][2]>> : bb \in Bands4 \X Bands4} :
        \A c \in 1..4 : {g[1][c], g[2][c], g[3][c], g[4][c]} = 1..4}

\* the solved grid of Example9
Solved9 ==
    << <<2, 6, 4, 8, 5, 9, 3, 1, 7>>, <<9, 8, 1, 7, 3, 4, 6, 5, 2>>,
       <<7, 5, 3, 6, 2, 1, 8, 4, 9>>, <<1, 3, 5, 2, 9, 7, 4, 8, 6>>,
       <<8, 9, 2, 5, 4, 6, 7, 3, 1>>, <<4, 7, 6, 3, 1, 8, 9, 2, 5>>,
       <<3, 1, 8, 9, 7, 5, 2, 6, 4>>, <<6, 4, 9, 1, 8, 2, 5, 7, 3>>,
       <<5, 2, 7, 4, 6, 3, 1, 9, 8>> >>

\* solved grids of side n over 1..n: all of them for the sides 1 and 4; for a
\* larger side the solved grids of the inputs of that side
SolvedGrids(n) ==
    IF n = 1 THEN {<< <<1>> >>}
    ELSE IF n = 4 THEN AllSolved4
    ELSE IF n = 9 THEN {Solved9, Canon(9)}
    ELSE {Canon(n)}

\* the completions of raw among SolvedGrids
Completions(raw, a) ==
    {g \in SolvedGrids(Len(raw)) : IsSolvedGrid(g, a) /\ Extends(g, raw)}

\* the board of the returned Board as a grid of values, 0 for a cell that is
\* still a list
RetGrid ==
    [r \in 1..height |-> [c \in 1..width |->
        IF ret[1].board[<<r - 1, c - 1>>].isList THEN 0 ELSE ret[1].board[<<r - 1, c - 1>>].v]]

(***************************************************************************)
(* Properties                                                              *)
(***************************************************************************)
\* C1: every board iterate2 returns has a single alphabet value in every cell
\* and each alphabet value exactly once in every row, column and sub-region,
\* whatever the given cells were.
C1_ReturnedBoardValid ==
    (phase = "Board" /\ ValidDims(raw_board, possible_values))
        => IsSolvedGrid(RetGrid, possible_values)

\* C2: for a grid of valid dimensions with a blank cell and pairwise
\* consistent givens, iterate2 returns None exactly when no completion exists,
\* and returns a solved board when one exists.
C2_Exhaustive ==
    (/\ Finished
     /\ ValidDims(raw_board, possible_values)
     /\ HasBlank(raw_board)
     /\ ~GivenConflict(raw_board))
        => /\ (phase = "None") <=> (Completions(raw_board, possible_values) = {})
           /\ (Completions(raw_board, possible_values) # {})
                  => (phase = "Board" /\ RetGrid \in Completions(raw_board, possible_values))

\* C3: a grid with two equal givens in one row, column or sub-region yields
\* the failure result None.
C3_ConflictUnsatisfiable ==
    (/\ Finished
     /\ ValidDims(raw_board, possible_values)
     /\ GivenConflict(raw_board))
        => phase = "None"

\* the cells of board b that hold a fixed value
FixedCells(b) == {yx \in DOMAIN b : ~b[yx].isList}

\* C4: a given cell holds its value in every returned board, and on one Board
\* instance a fixed cell keeps its value in every later step.
C4_FixedStays ==
    [][/\ \A n \in 1..Len(stack) :
              n <= Len(stack') =>
                  \A yx \in FixedCells(stack[n].board) :
                      stack'[n].board[yx] = stack[n].board[yx]
       /\ (phase = "running" /\ phase' = "Board") =>
              /\ \A yx \in FixedCells(top.board) : ret'[1].board[yx] = top.board[yx]
              /\ Extends(RetGrid', raw_board)]_vars

C4_Witness ==
    /\ phase = "Board"
    /\ ValidDims(raw_board, possible_values)
    /\ HasGiven(raw_board)
    /\ HasBlank(raw_board)
    /\ Extends(RetGrid, raw_board)

\* C5: a grid with exactly one completion is answered with that completion;
\* Example4 with the alphabet 1..4 is answered with Solved4.
C5_UniqueCompletion ==
    /\ (/\ Finished
        /\ ValidDims(raw_board, possible_values)
        /\ Len(raw_board) \in {1, 4}
        /\ Cardinality(Completions(raw_board, possible_values)) = 1)
           => (phase = "Board" /\ Completions(raw_board, possible_values) = {RetGrid})
    /\ (Finished /\ raw_board = Example4 /\ possible_values = Alphabet(4))
           => (phase = "Board" /\ RetGrid = Solved4)

\* C6: when the propagation loop ends on a board with unsolved = 0 the call
\* returns that board; branching starts only with unsolved > 0 and a cell
\* that is still a list.
C6_SolvedReturned ==
    [][/\ (phase = "running" /\ top.pc = "loop" /\ top.i > Len(top.toDo) /\ top.unsolved = 0)
              => (phase' = "Board" /\ ret' = <<top>>)
       /\ (phase = "running" /\ phase' = "running" /\ Len(stack') = Len(stack)
               /\ top.pc = "loop" /\ top'.pc = "branch")
              => (top.unsolved > 0 /\ FixedCells(top.board) # DOMAIN top.board)]_vars

\* C7: construction rejects a non-square grid or a side that is no perfect
\* square with InvalidDimensions, and an alphabet of another size than the
\* side with InvalidAlphabet, before any solver step.
C7_Rejects ==
    phase # "new" =>
        LET square == /\ Len(raw_board) >= 1
                      /\ \A r \in 1..Len(raw_board) : Len(raw_board[r]) = Len(raw_board)
                      /\ ISqrt(Len(raw_board)) * ISqrt(Len(raw_board)) = Len(raw_board)
        IN  /\ ~square => phase = "InvalidDimensions"
            /\ (square /\ Len(possible_values) # Len(raw_board)) => phase = "InvalidAlphabet"

\* the Board instances alive: the calls on the stack and the returned board
Boards == {stack[n] : n \in 1..Len(stack)} \cup {ret[n] : n \in 1..Len(ret)}

C10_Monotone ==
    [][/\ \A n \in 1..Len(stack) :
              n <= Len(stack') =>
                  stack'[n].unsolved \in {stack[n].unsolved, stack[n].unsolved - 1}
       /\ (Len(stack) >= 1 /\ Len(stack') = Len(stack) + 1)
              => stack'[Len(stack')].unsolved = top.unsolved - 1
       /\ (phase = "running" /\ phase' = "Board")
              => ret'[1].unsolved \in {top.unsolved, top.unsolved - 1}
       /\ \A n \in 1..(Len(stack') - 1) : stack'[n + 1].unsolved <= stack'[n].unsolved]_vars

\* a snapshot that has committed a forced cell after its guess
C10_Witness ==
    /\ phase = "running"
    /\ Len(stack) >= 2
    /\ top.unsolved < stack[Len(stack) - 1].unsolved - 1

\* the cells of board b whose candidate list is empty
EmptyCells(b) == {yx \in DOMAIN b : b[yx].isList /\ Len(b[yx].c) = 0}

\* the coordinates of toDo that the loop of frame f has not dequeued yet
Pending(f) == {f.toDo[n] : n \in f.i..Len(f.toDo)}

\* C11: a board on which a candidate list became empty is never returned and
\* never branched on: only the running call can hold such a board, it is
\* still in its loop with the empty cell waiting in toDo, and its next step
\* is another pass of the loop or the return of None.
C11_ContradictionReported ==
    /\ [](phase = "running" =>
             \A n \in 1..Len(stack) :
                 EmptyCells(stack[n].board) # {} =>
                     /\ n = Len(stack)
                     /\ stack[n].pc = "loop"
                     /\ EmptyCells(stack[n].board) \subseteq Pending(stack[n]))
    /\ [][(phase = "running" /\ EmptyCells(top.board) # {}) =>
              /\ phase' \in {"running", "None"}
              /\ ret' = ret
              /\ \/ phase' = "None"
                 \/ Len(stack') = Len(stack) - 1
                 \/ /\ Len(stack') = Len(stack)
                    /\ top'.pc = "loop"
                    /\ top'.i = top.i + 1
                    /\ EmptyCells(top.board) \subseteq EmptyCells(top'.board)]_vars

\* a list was emptied and the loop is at an earlier entry of toDo, for
\* another cell: the emptiness is found only when the emptied cell is dequeued
C11_Witness ==
    /\ phase = "running"
    /\ EmptyCells(top.board) # {}
    /\ top.i <= Len(top.toDo)
    /\ top.toDo[top.i] \notin EmptyCells(top.board)

\* C12: a call that is waiting for an attempt is not changed by anything the
\* attempt does: starting the attempt only advances the caller's position in
\* the list of the chosen cell, the snapshot is the caller's board with the
\* guess and one unsolved cell less, and when the attempt returns None the
\* caller has the board, toDo and unsolved it had before.
C12_BranchIsolation ==
    [][/\ \A n \in 1..(Len(stack) - 1) : n <= Len(stack') => stack'[n] = stack[n]
       /\ (phase = "running" /\ Len(stack') = Len(stack) + 1) =>
              /\ top.pc = "branch"
              /\ stack'[Len(stack)] = [top EXCEPT !.k = top.k + 1]
              /\ top'.board = [top.board EXCEPT ![top.loc] = IntCell(top.board[top.loc].c[top.k])]
              /\ top'.unsolved = top.unsolved - 1
       /\ (phase = "running" /\ phase' = "running" /\ Len(stack') = Len(stack) - 1) =>
              /\ top'.pc = "branch"
              /\ top'.board[top'.loc].isList
              /\ top'.k >= 2]_vars

\* an attempt has returned None and the next value of the same list is due
C12_Witness ==
    /\ phase = "running"
    /\ top.pc = "branch"
    /\ top.k >= 2
    /\ top.k <= Len(top.board[top.loc].c)

\* the position of value v in the alphabet a
AlphaPos(a, v) == CHOOSE n \in 1..Len(a) : a[n] = v

\* list lst holds values of the alphabet a in the order of a
InAlphabetOrder(lst, a) ==
    /\ \A n \in 1..Len(lst) : InList(lst[n], a)
    /\ \A m \in 1..Len(lst), n \in 1..Len(lst) :
           m < n => AlphaPos(a, lst[m]) < AlphaPos(a, lst[n])

\* C13: every candidate list keeps the order of the alphabet; the branch
\* phase starts at the first value of the chosen list and each attempt takes
\* the next one, while no other attempt of that call is running; the first
\* attempt that returns a board ends every enclosing call with that board,
\* which holds the value each of them was trying, and nothing is tried after.
C13_AlphabetOrder ==
    /\ [](\A f \in Boards : \A yx \in DOMAIN f.board :
              f.board[yx].isList => InAlphabetOrder(f.board[yx].c, possible_values))
    /\ [][/\ (phase = "running" /\ phase' = "running" /\ Len(stack') = Len(stack)
                  /\ top.pc = "loop" /\ top'.pc = "branch") => top'.k = 1
          /\ (phase = "running" /\ Len(stack') = Len(stack) + 1) =>
                 /\ top.pc = "branch"
                 /\ stack'[Len(stack)].k = top.k + 1
                 /\ top'.board[top.loc] = IntCell(top.board[top.loc].c[top.k])
          /\ (phase = "running" /\ phase' = "Board") =>
                 /\ stack' = <<>>
                 /\ \A n \in 1..(Len(stack) - 1) :
                        ret'[1].board[stack[n].loc] =
                            IntCell(stack[n].board[stack[n].loc].c[stack[n].k - 1])
          /\ phase = "Board" => (phase' = "Board" /\ ret' = ret /\ stack' = stack)]_vars

\* the second value of a list of at least three values, from which values were
\* eliminated before, is being tried after the first one failed
C13_Witness ==
    /\ phase = "running"
    /\ Len(stack) >= 2
    /\ stack[Len(stack) - 1].k = 3
    /\ Len(stack[Len(stack) - 1].board[stack[Len(stack) - 1].loc].c) >= 3
    /\ stack[Len(stack) - 1].board[stack[Len(stack) - 1].loc].c # possible_values

\* cell p comes before cell q in the scan `for row ...: for column ...`
RowMajorBefore(p, q) == p[1] < q[1] \/ (p[1] = q[1] /\ p[2] < q[2])

\* C14: on every board of a grid of valid dimensions, lowest_entropy returns
\* None exactly when no cell is a list, and otherwise the first cell in
\* row-major order among the lists with the fewest values.
C14_LowestEntropy ==
    (phase = "running" /\ ValidDims(raw_board, possible_values)) =>
        LET b     == top.board
            lists == DOMAIN b \ FixedCells(b)
            found == lowest_entropy(b, height, width)
        IN  /\ (found = <<>>) <=> (lists = {})
            /\ found # <<>> =>
                   /\ found[1] \in lists
                   /\ \A q \in lists :
                          \/ Len(b[found[1]].c) < Len(b[q].c)
                          \/ /\ Len(b[found[1]].c) = Len(b[q].c)
                             /\ (q = found[1] \/ RowMajorBefore(found[1], q))

\* the candidates left on board b, a fixed cell counting as one
Weight(b) ==
    Cardinality({pk \in (DOMAIN b) \X (1..Len(possible_values)) :
                    IF b[pk[1]].isList THEN pk[2] <= Len(b[pk[1]].c) ELSE pk[2] = 1})

\* the length toDo had when the loop of the n-th call started: the given
\* cells for the board of the constructor, the guessed cell for a snapshot
ToDoStart(n) == IF n = 1 THEN Len(InitToDo(raw_board, height, width)) ELSE 1

\* C15: one pass of the loop moves one entry forward in toDo, keeps the
\* entries that are there and appends exactly one entry per candidate it
\* removed; a Board instance gets at most side^2 * side entries appended; and
\* a loop that is running comes to an end.
C15_LoopTerminates ==
    /\ [][(phase = "running" /\ phase' = "running" /\ Len(stack') = Len(stack)
              /\ top.pc = "loop" /\ top'.pc = "loop") =>
              /\ top'.i = top.i + 1
              /\ Len(top'.toDo) >= Len(top.toDo)
              /\ SubSeq(top'.toDo, 1, Len(top.toDo)) = top.toDo
              /\ Len(top'.toDo) - Len(top.toDo) = Weight(top.board) - Weight(top'.board)]_vars
    /\ [](phase = "running" =>
             \A n \in 1..Len(stack) :
                 stack[n].pc = "loop" =>
                     Len(stack[n].toDo) - ToDoStart(n) <= width * width * width)
    /\ (Looping ~> ~Looping)

\* a pass of the loop has appended entries behind the ones still waiting
C15_Witness ==
    /\ Looping
    /\ top.i >= 2
    /\ Len(top.toDo) > ToDoStart(Len(stack))
    /\ top.i <= ToDoStart(Len(stack))

\* iterate has returned or raised
IterateFinished == iphase \notin {"new", "running"}

\* C16: on a grid of valid dimensions iterate ends with None or with a board
\* in which every cell holds a fixed value.
C16_NoPartialResult ==
    (IterateFinished /\ ValidDims(raw_board, possible_values)) =>
        /\ iphase \in {"Board", "None"}
        /\ iphase = "Board" => FixedCells(iret[1].board) = DOMAIN iret[1].board

\* C17: on a grid of valid dimensions with a blank cell and pairwise
\* consistent givens, iterate and iterate2 both return None or both return a
\* board, and then the same value in every cell.
C17_SameOutcome ==
    (/\ Finished
     /\ IterateFinished
     /\ ValidDims(raw_board, possible_values)
     /\ HasBlank(raw_board)
     /\ ~GivenConflict(raw_board))
        => \/ phase = "None" /\ iphase = "None"
           \/ /\ phase = "Board"
              /\ iphase = "Board"
              /\ iret[1].board = ret[1].board

\* two different cells (0-based <<y, x>>) share a row, a column or a box
PeerCells(p, q) == Peers(<<p[1] + 1, p[2] + 1>>, <<q[1] + 1, q[2] + 1>>, sub_block)

\* no list of board b holds the value of a fixed peer
Propagated(b) ==
    \A p \in FixedCells(b) : \A q \in DOMAIN b \ FixedCells(b) :
        PeerCells(p, q) => ~InList(b[p].v, b[q].c)

====
